---- MODULE Spec2Model ----
(***************************************************************************)
(* A model of virttest/qemu_storage_pool.py: the directory storage pool    *)
(* (class DirectoryPool over PoolBase), its volume table, its lifecycle    *)
(* flag and the part of the filesystem it reads and writes.                *)
(*                                                                         *)
(* Paths, locators and attach descriptors are strings and are computed the *)
(* way the code computes them (os.path.join, os.path.abspath, the '%'      *)
(* templates).  Every public method is one action; the value it returns    *)
(* or the exception it raises is recorded in `last` together with a        *)
(* snapshot of the state the call started from.                            *)
(***************************************************************************)
EXTENDS Integers, Sequences, FiniteSets, TLC

VARIABLES
    active,        \* PoolBase.active
    config,        \* PoolBase.config: the dict parser(**config) returned
    volumes,       \* PoolBase.volumes: name -> <<path, url, json>>
    uuid,          \* PoolBase.uuid
    parentExists,  \* filesystem: the parent of the pool directory exists
    dirExists,     \* filesystem: the pool directory exists
    files,         \* filesystem: the paths that are regular files
    created,       \* history: names registered by create_volume on an active
                   \* pool and not deleted since
    last,          \* the last call: operation, arguments, outcome, pre-state
    fmt,           \* format_size_human_readable: the call and its result
    bgq,           \* bg_error_queue: background_errors and the threads on it
    mq             \* qemu_devices.utils.MinQueue: the heap and the last call

\* the pool's own state
poolvars == <<active, config, volumes, uuid, parentExists, dirExists, files,
              created, last>>

\* the state of the other three components
aux == <<fmt, bgq, mq>>

vars == <<poolvars, aux>>

\* the value a component's variable holds in a specification of another one
Idle == [op |-> "idle"]

----------------------------------------------------------------------------
(* Bounds and input sets *)

NumNames == 2

VolNames == <<"a", "b", "c", "d">>

Names == {VolNames[i] : i \in 1..NumNames}

Formats == {"qcow2", "raw"}

PoolName == "p1"

Uuids == {"u1", "u2"}

\* the process's working directory, against which abspath resolves
Cwd == "/tmp"

\* config['path'] as the caller may give it: relative, absolute, and
\* absolute with a trailing separator (as in the module's own demo)
ConfigPaths == {"xyz", "/tmp/xyz", "/tmp/xyz/"}

----------------------------------------------------------------------------
(* os.path helpers, on strings *)

startswith_sep(p) == Len(p) > 0 /\ SubSeq(p, 1, 1) = "/"

endswith_sep(p) == Len(p) > 0 /\ SubSeq(p, Len(p), Len(p)) = "/"

\* os.path.join(a, b)
path_join(a, b) ==
    IF startswith_sep(b) THEN b
    ELSE IF a = "" \/ endswith_sep(a) THEN a \o b
    ELSE a \o "/" \o b

\* os.path.normpath, for paths without "." / ".." / doubled separators:
\* trailing separators are dropped (the root keeps its one separator)
RECURSIVE normpath(_)
normpath(p) ==
    IF Len(p) > 1 /\ endswith_sep(p) THEN normpath(SubSeq(p, 1, Len(p) - 1))
    ELSE p

\* os.path.abspath(p)
abspath(p) ==
    IF startswith_sep(p) THEN normpath(p) ELSE normpath(path_join(Cwd, p))

\* os.path.isfile(p)
isfile(fls, p) == p \in fls

----------------------------------------------------------------------------
(* The volume table: a defaultdict(lambda: ['', '', '']) *)

EmptyVolumes == [n \in {} |-> <<"", "", "">>]

default_entry == <<"", "", "">>

\* self.volumes[name] read through the defaultdict: a missing key is
\* inserted with the default entry before it is returned
defaultdict_touch(vols, name) ==
    IF name \in DOMAIN vols THEN vols
    ELSE [n \in (DOMAIN vols) \cup {name} |->
            IF n = name THEN default_entry ELSE vols[n]]

dict_set(vols, name, entry) ==
    [n \in (DOMAIN vols) \cup {name} |-> IF n = name THEN entry ELSE vols[n]]

dict_del(vols, name) ==
    [n \in (DOMAIN vols) \ {name} |-> vols[n]]

----------------------------------------------------------------------------
(* DirectoryPool's formatting helpers *)

format_vol_path(cfg, vol_name) == path_join(cfg.path, vol_name)

format_as_url(cfg, vol_name) == "file:" \o format_vol_path(cfg, vol_name)

format_as_json(vol_path, vol_format) ==
    "{\"driver\": \"" \o vol_format \o "\", \"file\": {\"driver\": \"file\", "
        \o "\"filename\": \"" \o vol_path \o "\"}}"

is_volumes_existed(vols, name) == name \in DOMAIN vols

----------------------------------------------------------------------------
(* The record of a call *)

NoInfo == [k \in {} |-> ""]

Snapshot ==
    [active |-> active, volumes |-> volumes, files |-> files,
     dirExists |-> dirExists, parentExists |-> parentExists,
     config |-> config, uuid |-> uuid, created |-> created]

\* op: the method; arg, arg2: its arguments ("" when it has none);
\* status: "ok" or the class of the exception raised; err: the exception's
\* arguments; url, info, flag: the value returned
Call(op, arg, arg2, status, err, url, info, flag) ==
    [op |-> op, arg |-> arg, arg2 |-> arg2, status |-> status, err |-> err,
     url |-> url, info |-> info, flag |-> flag, pre |-> Snapshot]

Ok(op, arg, arg2) == Call(op, arg, arg2, "ok", <<>>, "", NoInfo, FALSE)

Raised(op, arg, arg2, exc, err) == Call(op, arg, arg2, exc, err, "", NoInfo, FALSE)

----------------------------------------------------------------------------
(* Construction: DirectoryPool.__init__ -> PoolBase.__init__ -> _parse_config *)

ConfigError == "DirectoryPoolConfigError"

\* the config dicts a caller may pass: any subset of the keys path and size
ConfigInputs ==
    {[k \in K |-> IF k = "path" THEN p ELSE "1G"] :
        K \in SUBSET {"path", "size"}, p \in ConfigPaths}

\* a _parse_config that only looks for the required key
parse_config_lenient(cfg) ==
    IF "path" \notin DOMAIN cfg
    THEN [status |-> ConfigError,
          err |-> <<"DirectoryPool missing 1 required positional argument: 'path'">>,
          config |-> NoInfo]
    ELSE [status |-> "ok", err |-> <<>>, config |-> cfg]

\* parser(**config) with `def parser(path): return locals()`: binding the
\* keywords raises TypeError for a keyword that is no parameter, then for a
\* parameter left without a value; re.sub puts 'DirectoryPool' for 'parser()'
\* in the message (the qualified-name prefix newer interpreters put before
\* it is left out)
parse_config(cfg) ==
    LET unexpected == DOMAIN cfg \ {"path"} IN
    IF unexpected # {}
    THEN [status |-> ConfigError,
          err |-> <<"DirectoryPool got an unexpected keyword argument '"
                      \o (CHOOSE k \in unexpected : TRUE) \o "'">>,
          config |-> NoInfo]
    ELSE IF "path" \notin DOMAIN cfg
    THEN [status |-> ConfigError,
          err |-> <<"DirectoryPool missing 1 required positional argument: 'path'">>,
          config |-> NoInfo]
    ELSE [status |-> "ok", err |-> <<>>, config |-> [path |-> cfg["path"]]]

InitPool ==
    /\ active = FALSE
    /\ \E input \in ConfigInputs :
         LET r == parse_config(input) IN
         /\ config = r.config
         /\ volumes = EmptyVolumes
         /\ uuid \in Uuids
         /\ parentExists \in BOOLEAN
         /\ dirExists \in BOOLEAN
         /\ dirExists => parentExists
         /\ files = {}
         /\ created = {}
         /\ last = Call("__init__", "", "", r.status, r.err, "", input, FALSE)

Init ==
    /\ InitPool
    /\ fmt = Idle
    /\ bgq = Idle
    /\ mq = Idle

\* a construction that raised returned no pool object: nothing can be called
PoolExists == ~(last.op = "__init__" /\ last.status # "ok")

----------------------------------------------------------------------------
(* Exceptions: the class and the arguments the constructor is given *)

InactiveError == "DirectoryPoolInactiveError"

NotExistError == "PoolVolNotExistError"

NotImplemented == "NotImplementedError"

OSError == "OSError"

----------------------------------------------------------------------------
(* DirectoryPool._pool_build and pool_start *)

\* a _pool_build that leaves config['path'] as the caller gave it
pool_build_keeps_path(cfg, parent, dir) ==
    IF dir \/ parent THEN [ok |-> TRUE, dirExists |-> TRUE, config |-> cfg]
    ELSE [ok |-> FALSE, dirExists |-> FALSE, config |-> cfg]

\* os.mkdir makes one level only: it raises when the parent is missing
pool_build(cfg, parent, dir) ==
    LET path == abspath(cfg.path) IN
    IF dir THEN [ok |-> TRUE, dirExists |-> TRUE, config |-> [cfg EXCEPT !.path = path]]
    ELSE IF parent THEN [ok |-> TRUE, dirExists |-> TRUE, config |-> [cfg EXCEPT !.path = path]]
    ELSE [ok |-> FALSE, dirExists |-> FALSE, config |-> cfg]

\* a pool_start that sets the flag whatever the build step did
pool_start_unconditional(act, cfg, parent, dir) ==
    LET b == pool_build(cfg, parent, dir) IN
    [status |-> IF b.ok THEN "ok" ELSE OSError, active |-> TRUE,
     config |-> b.config, dirExists |-> b.dirExists]

pool_start_effect(act, cfg, parent, dir) ==
    LET b == pool_build(cfg, parent, dir) IN
    IF b.ok
    THEN [status |-> "ok", active |-> TRUE, config |-> b.config,
          dirExists |-> b.dirExists]
    ELSE [status |-> OSError, active |-> act, config |-> cfg, dirExists |-> dir]

pool_start ==
    LET e == pool_start_effect(active, config, parentExists, dirExists) IN
    /\ PoolExists
    /\ active' = e.active
    /\ config' = e.config
    /\ dirExists' = e.dirExists
    /\ last' = IF e.status = "ok" THEN Ok("pool_start", "", "")
               ELSE Raised("pool_start", "", "", e.status, <<>>)
    /\ UNCHANGED <<aux, volumes, uuid, parentExists, files, created>>

\* PoolBase.pool_destroy, which DirectoryPool does not override
pool_destroy ==
    /\ PoolExists
    /\ last' = Raised("pool_destroy", "", "", NotImplemented, <<>>)
    /\ UNCHANGED <<aux, active, config, volumes, uuid, parentExists, dirExists,
                   files, created>>

\* PoolBase.pool_delete, which DirectoryPool does not override
pool_delete ==
    /\ PoolExists
    /\ last' = Raised("pool_delete", "", "", NotImplemented, <<>>)
    /\ UNCHANGED <<aux, active, config, volumes, uuid, parentExists, dirExists,
                   files, created>>

is_pool_active ==
    /\ PoolExists
    /\ last' = Call("is_pool_active", "", "", "ok", <<>>, "", NoInfo, active)
    /\ UNCHANGED <<aux, active, config, volumes, uuid, parentExists, dirExists,
                   files, created>>

----------------------------------------------------------------------------
(* Introspection *)

\* pool_stat calls os.statvfs(config['path']), which raises when the
\* directory is gone; the capacity figures themselves are not modelled
pool_info_effect(act, cfg, id, dir) ==
    IF ~act THEN [status |-> InactiveError, err |-> <<PoolName, "pool_info">>,
                  info |-> NoInfo]
    ELSE IF ~dir THEN [status |-> OSError, err |-> <<>>, info |-> NoInfo]
    ELSE [status |-> "ok", err |-> <<>>,
          info |-> [name |-> PoolName, uuid |-> id, config |-> cfg,
                    state |-> IF act THEN "active" ELSE "inactive"]]

pool_info ==
    LET e == pool_info_effect(active, config, uuid, dirExists) IN
    /\ PoolExists
    /\ last' = Call("pool_info", "", "", e.status, e.err, "", e.info, FALSE)
    /\ UNCHANGED <<aux, active, config, volumes, uuid, parentExists, dirExists,
                   files, created>>

\* `self.is_volumes_existed` at line 298 is the bound method, not a call:
\* it is always true, so the test reduces to os.path.isfile(path)
bound_method_truth == TRUE

\* a get_vol_info that does not look at the backing file
get_vol_info_no_file_test(vols, fls, vol_name) ==
    LET touched == defaultdict_touch(vols, vol_name)
        path == touched[vol_name][1]
    IN IF vol_name \notin DOMAIN vols
       THEN [status |-> NotExistError, err |-> <<PoolName, vol_name>>,
             info |-> NoInfo, volumes |-> touched]
       ELSE [status |-> "ok", err |-> <<>>, info |-> [path |-> path],
             volumes |-> touched]

get_vol_info_effect(vols, fls, vol_name) ==
    LET touched == defaultdict_touch(vols, vol_name)
        path == touched[vol_name][1]
    IN IF ~(bound_method_truth /\ isfile(fls, path))
       THEN [status |-> NotExistError, err |-> <<PoolName, vol_name>>,
             info |-> NoInfo, volumes |-> touched]
       ELSE [status |-> "ok", err |-> <<>>, info |-> [path |-> path],
             volumes |-> touched]

get_vol_info(vol_name) ==
    LET e == get_vol_info_effect(volumes, files, vol_name) IN
    /\ PoolExists
    /\ volumes' = e.volumes
    /\ last' = Call("get_vol_info", vol_name, "", e.status, e.err, "", e.info, FALSE)
    /\ UNCHANGED <<aux, active, config, uuid, parentExists, dirExists, files, created>>

\* the tracked names whose get_vol_info would raise
missing_vols(vols, fls) ==
    {n \in DOMAIN vols : get_vol_info_effect(vols, fls, n).status # "ok"}

list_info(vols, fls) ==
    [n \in DOMAIN vols |-> get_vol_info_effect(vols, fls, n).info]

\* the loop stops at the first tracked name whose lookup raises; the dict's
\* iteration order is not modelled, so any such name may be the first
pool_list_vols ==
    /\ PoolExists
    /\ \/ /\ missing_vols(volumes, files) = {}
          /\ last' = Call("pool_list_vols", "", "", "ok", <<>>, "",
                          list_info(volumes, files), FALSE)
       \/ \E n \in missing_vols(volumes, files) :
            last' = Raised("pool_list_vols", "", "", NotExistError, <<PoolName, n>>)
    /\ UNCHANGED <<aux, active, config, volumes, uuid, parentExists, dirExists,
                   files, created>>

\* an is_volumes_existed that reads the entry through the defaultdict
is_volumes_existed_by_lookup(vols, name) ==
    [flag |-> defaultdict_touch(vols, name)[name] # default_entry,
     volumes |-> defaultdict_touch(vols, name)]

is_volumes_existed_effect(vols, name) ==
    [flag |-> is_volumes_existed(vols, name), volumes |-> vols]

is_volumes_existed_call(name) ==
    LET e == is_volumes_existed_effect(volumes, name) IN
    /\ PoolExists
    /\ volumes' = e.volumes
    /\ last' = Call("is_volumes_existed", name, "", "ok", <<>>, "", NoInfo, e.flag)
    /\ UNCHANGED <<aux, active, config, uuid, parentExists, dirExists,
                   files, created>>

----------------------------------------------------------------------------
(* Volume operations *)

\* a create_volume that writes the entry again when the name is tracked
create_volume_overwrite(act, cfg, vols, vol_name, vol_format) ==
    LET path == format_vol_path(cfg, vol_name)
        url == format_as_url(cfg, vol_name)
    IN IF act
       THEN [url |-> url,
             volumes |-> dict_set(vols, vol_name,
                                  <<path, url, format_as_json(path, vol_format)>>)]
       ELSE [url |-> url, volumes |-> vols]

create_volume_effect(act, cfg, vols, vol_name, vol_format) ==
    IF act /\ is_volumes_existed(vols, vol_name)
    THEN [url |-> vols[vol_name][2], volumes |-> vols]
    ELSE LET url == format_as_url(cfg, vol_name)
             path == format_vol_path(cfg, vol_name)
         IN IF act
            THEN [url |-> url,
                  volumes |-> dict_set(vols, vol_name,
                                <<path, format_as_url(cfg, vol_name),
                                  format_as_json(path, vol_format)>>)]
            ELSE [url |-> url, volumes |-> vols]

create_volume(vol_name, vol_format) ==
    LET e == create_volume_effect(active, config, volumes, vol_name, vol_format) IN
    /\ PoolExists
    /\ volumes' = e.volumes
    /\ created' = IF active THEN created \cup {vol_name} ELSE created
    /\ last' = Call("create_volume", vol_name, vol_format, "ok", <<>>, e.url,
                    NoInfo, FALSE)
    /\ UNCHANGED <<aux, active, config, uuid, parentExists, dirExists, files>>

\* a delete_volume that looks the name up before it looks at the flag
delete_volume_lookup_first(act, vols, fls, vol_name, rm_fails) ==
    IF vol_name \notin DOMAIN vols
    THEN [status |-> NotExistError, err |-> <<PoolName, vol_name>>,
          volumes |-> vols, files |-> fls]
    ELSE IF ~act
    THEN [status |-> InactiveError, err |-> <<PoolName, "delete_volume">>,
          volumes |-> vols, files |-> fls]
    ELSE [status |-> "ok", err |-> <<>>, volumes |-> dict_del(vols, vol_name),
          files |-> fls \ {vols[vol_name][1]}]

\* a delete_volume that drops the entry and leaves the file where it is
delete_volume_keep_file(act, vols, fls, vol_name, rm_fails) ==
    IF ~act
    THEN [status |-> InactiveError, err |-> <<PoolName, "delete_volume">>,
          volumes |-> vols, files |-> fls]
    ELSE IF vol_name \notin DOMAIN vols
    THEN [status |-> NotExistError, err |-> <<PoolName, vol_name>>,
          volumes |-> vols, files |-> fls]
    ELSE [status |-> "ok", err |-> <<>>, volumes |-> dict_del(vols, vol_name),
          files |-> fls]

\* a delete_volume that drops the entry before it removes the file
delete_volume_entry_first(act, vols, fls, vol_name, rm_fails) ==
    IF ~act
    THEN [status |-> InactiveError, err |-> <<PoolName, "delete_volume">>,
          volumes |-> vols, files |-> fls]
    ELSE IF vol_name \notin DOMAIN vols
    THEN [status |-> NotExistError, err |-> <<PoolName, vol_name>>,
          volumes |-> vols, files |-> fls]
    ELSE IF isfile(fls, vols[vol_name][1]) /\ rm_fails
    THEN [status |-> OSError, err |-> <<>>,
          volumes |-> dict_del(vols, vol_name), files |-> fls]
    ELSE [status |-> "ok", err |-> <<>>, volumes |-> dict_del(vols, vol_name),
          files |-> fls \ {vols[vol_name][1]}]

\* rm_fails: os.remove raises (permission denied, I/O error)
delete_volume_effect(act, vols, fls, vol_name, rm_fails) ==
    IF ~act
    THEN [status |-> InactiveError, err |-> <<PoolName, "delete_volume">>,
          volumes |-> vols, files |-> fls]
    ELSE IF vol_name \notin DOMAIN vols
    THEN [status |-> NotExistError, err |-> <<PoolName, vol_name>>,
          volumes |-> vols, files |-> fls]
    ELSE LET vol_path == vols[vol_name][1] IN
         IF isfile(fls, vol_path)
         THEN IF rm_fails
              THEN [status |-> OSError, err |-> <<>>, volumes |-> vols,
                    files |-> fls]
              ELSE [status |-> "ok", err |-> <<>>,
                    volumes |-> dict_del(vols, vol_name),
                    files |-> fls \ {vol_path}]
         ELSE [status |-> "ok", err |-> <<>>,
               volumes |-> dict_del(vols, vol_name), files |-> fls]

delete_volume(vol_name, rm_fails) ==
    LET e == delete_volume_effect(active, volumes, files, vol_name, rm_fails) IN
    /\ PoolExists
    /\ volumes' = e.volumes
    /\ files' = e.files
    /\ created' = IF e.status = "ok" THEN created \ {vol_name} ELSE created
    /\ last' = Call("delete_volume", vol_name, "", e.status, e.err, "", NoInfo,
                    rm_fails)
    /\ UNCHANGED <<aux, active, config, uuid, parentExists, dirExists>>

clone_volume_effect(act, source_vol, dest_vol) ==
    IF ~act THEN [status |-> InactiveError, err |-> <<PoolName, "clone_volume">>]
    ELSE [status |-> "ok", err |-> <<>>]

clone_volume(source_vol, dest_vol) ==
    LET e == clone_volume_effect(active, source_vol, dest_vol) IN
    /\ PoolExists
    /\ last' = Call("clone_volume", source_vol, dest_vol, e.status, e.err, "",
                    NoInfo, FALSE)
    /\ UNCHANGED <<aux, active, config, volumes, uuid, parentExists, dirExists,
                   files, created>>

----------------------------------------------------------------------------
(* The filesystem is shared: the image tool and other processes act on it *)

\* where a volume's image lives once the pool directory is resolved
vol_file(cfg, vol_name) == path_join(abspath(cfg.path), vol_name)

\* qemu-img create (or any other process) puts an image file in the directory
EnvCreateFile(vol_name) ==
    /\ PoolExists
    /\ dirExists
    /\ vol_file(config, vol_name) \notin files
    /\ files' = files \cup {vol_file(config, vol_name)}
    /\ last' = Ok("env", "", "")
    /\ UNCHANGED <<aux, active, config, volumes, uuid, parentExists, dirExists, created>>

EnvRemoveFile(vol_name) ==
    /\ PoolExists
    /\ vol_file(config, vol_name) \in files
    /\ files' = files \ {vol_file(config, vol_name)}
    /\ last' = Ok("env", "", "")
    /\ UNCHANGED <<aux, active, config, volumes, uuid, parentExists, dirExists, created>>

EnvMakeParent ==
    /\ PoolExists
    /\ ~parentExists
    /\ parentExists' = TRUE
    /\ last' = Ok("env", "", "")
    /\ UNCHANGED <<aux, active, config, volumes, uuid, dirExists, files, created>>

EnvRemoveDir ==
    /\ PoolExists
    /\ dirExists
    /\ files = {}
    /\ dirExists' = FALSE
    /\ last' = Ok("env", "", "")
    /\ UNCHANGED <<aux, active, config, volumes, uuid, parentExists, files, created>>

----------------------------------------------------------------------------
Next ==
    \/ pool_start
    \/ pool_destroy
    \/ pool_delete
    \/ is_pool_active
    \/ pool_info
    \/ pool_list_vols
    \/ \E n \in Names : get_vol_info(n)
    \/ \E n \in Names : is_volumes_existed_call(n)
    \/ \E n \in Names, f \in Formats : create_volume(n, f)
    \/ \E n \in Names, b \in BOOLEAN : delete_volume(n, b)
    \/ \E s \in Names, d \in Names : clone_volume(s, d)
    \/ \E n \in Names : EnvCreateFile(n)
    \/ \E n \in Names : EnvRemoveFile(n)
    \/ EnvMakeParent
    \/ EnvRemoveDir

Spec == Init /\ [][Next]_vars

----------------------------------------------------------------------------
(* format_size_human_readable(value, binary)                               *)
(*                                                                         *)
(* A byte count is a sequence of digits in base 2^10, least significant    *)
(* first, without leading zeros (zero is <<0>>), so that counts up to and  *)
(* beyond 1024^9 can be given.  float(value) keeps 53 significant bits,    *)
(* round-half-to-even.                                                     *)

DigitBase == 1024

DigitBits == 10

MantissaBits == 53

IsZero(ds) == \A k \in 1..Len(ds) : ds[k] = 0

\* drop the zeros above the top digit
RECURSIVE Norm(_)
Norm(ds) ==
    IF Len(ds) > 1 /\ ds[Len(ds)] = 0 THEN Norm(SubSeq(ds, 1, Len(ds) - 1))
    ELSE ds

\* a small integer as a digit sequence
RECURSIVE FromInt(_)
FromInt(n) ==
    IF n < DigitBase THEN <<n>>
    ELSE <<n % DigitBase>> \o FromInt(n \div DigitBase)

\* a digit sequence known to be small, as an integer
RECURSIVE ToInt(_)
ToInt(ds) ==
    IF ds = <<>> THEN 0 ELSE Head(ds) + DigitBase * ToInt(Tail(ds))

\* ds * m + carry, for m below the digit base
RECURSIVE MulSmall(_, _, _)
MulSmall(ds, m, carry) ==
    IF ds = <<>> THEN (IF carry = 0 THEN <<>> ELSE <<carry>>)
    ELSE LET p == Head(ds) * m + carry IN
         <<p % DigitBase>> \o MulSmall(Tail(ds), m, p \div DigitBase)

\* base ** k
RECURSIVE Pow(_, _)
Pow(base, k) ==
    IF k = 0 THEN <<1>>
    ELSE IF base = DigitBase THEN <<0>> \o Pow(base, k - 1)
    ELSE MulSmall(Pow(base, k - 1), base, 0)

\* a < b
RECURSIVE LessFrom(_, _, _)
LessFrom(a, b, k) ==
    IF k = 0 THEN FALSE
    ELSE IF a[k] # b[k] THEN a[k] < b[k]
    ELSE LessFrom(a, b, k - 1)

Less(a, b) ==
    IF Len(a) # Len(b) THEN Len(a) < Len(b) ELSE LessFrom(a, b, Len(a))

\* the digits 1..k of ds divided by m, given the remainder from above
RECURSIVE DivStep(_, _, _, _)
DivStep(ds, m, k, rem) ==
    IF k = 0 THEN [q |-> <<>>, r |-> rem]
    ELSE LET cur == rem * DigitBase + ds[k]
             lower == DivStep(ds, m, k - 1, cur % m)
         IN [q |-> lower.q \o <<cur \div m>>, r |-> lower.r]

\* ds divided by base (at most the digit base): quotient and remainder
DivSmall(ds, base) ==
    IF base = DigitBase
    THEN [q |-> IF Len(ds) = 1 THEN <<0>> ELSE Tail(ds), r |-> Head(ds)]
    ELSE LET d == DivStep(ds, base, Len(ds), 0) IN [q |-> Norm(d.q), r |-> d.r]

\* ds / base^k: the whole part, and the fraction as k digits in that base,
\* least significant first
RECURSIVE DivPow(_, _, _)
DivPow(ds, base, k) ==
    IF k = 0 THEN [whole |-> ds, frac |-> <<>>]
    ELSE LET d == DivSmall(ds, base)
             rest == DivPow(d.q, base, k - 1)
         IN [whole |-> rest.whole, frac |-> <<d.r>> \o rest.frac]

BitLenDigit(d) ==
    IF d = 0 THEN 0 ELSE CHOOSE k \in 1..DigitBits : d \div (2 ^ (k - 1)) = 1

BitLen(ds) == DigitBits * (Len(ds) - 1) + BitLenDigit(ds[Len(ds)])

\* bit k (from 0) of the number
BitAt(ds, k) == (ds[(k \div DigitBits) + 1] \div (2 ^ (k % DigitBits))) % 2

\* some bit below bit k is set
AnyBitBelow(ds, k) ==
    \/ \E j \in 1..(k \div DigitBits) : ds[j] # 0
    \/ ds[(k \div DigitBits) + 1] % (2 ^ (k % DigitBits)) # 0

\* the bits below bit k cleared
ClearBelow(ds, k) ==
    [j \in 1..Len(ds) |->
        IF j <= k \div DigitBits THEN 0
        ELSE IF j = (k \div DigitBits) + 1
        THEN (ds[j] \div (2 ^ (k % DigitBits))) * (2 ^ (k % DigitBits))
        ELSE ds[j]]

\* amt added to digit j, the carry rippling upwards
RECURSIVE AddAt(_, _, _)
AddAt(ds, j, amt) ==
    IF j > Len(ds) THEN ds \o <<amt>>
    ELSE IF ds[j] + amt < DigitBase THEN [ds EXCEPT ![j] = ds[j] + amt]
    ELSE AddAt([ds EXCEPT ![j] = ds[j] + amt - DigitBase], j + 1, 1)

\* a float() that cuts the low bits off instead of rounding
float_truncating(ds) ==
    IF BitLen(ds) <= MantissaBits THEN ds
    ELSE ClearBelow(ds, BitLen(ds) - MantissaBits)

\* float(value) for a non-negative int: exact up to 53 bits, beyond that the
\* nearest value of 53 significant bits, ties to the even one
float_of(ds) ==
    IF BitLen(ds) <= MantissaBits THEN ds
    ELSE LET cut == BitLen(ds) - MantissaBits
             kept == ClearBelow(ds, cut)
             half == BitAt(ds, cut - 1) = 1
             sticky == cut > 1 /\ AnyBitBelow(ds, cut - 1)
             odd == BitAt(ds, cut) = 1
         IN IF half /\ (sticky \/ odd)
            THEN AddAt(kept, (cut \div DigitBits) + 1, 2 ^ (cut % DigitBits))
            ELSE kept

suffixes(binary) ==
    IF binary
    THEN <<"B", "KiB", "MiB", "GiB", "TiB", "PiB", "EiB", "ZiB", "YiB">>
    ELSE <<"B", "kB", "MB", "GB", "TB", "PB", "EB", "ZB", "YB">>

base_of(binary) == IF binary THEN 1024 ELSE 1000

\* the for loop of lines 26-29: the index it stops at, with the break or
\* by running out of suffixes
RECURSIVE unit_index(_, _, _)
unit_index(value, binary, i) ==
    IF i = Len(suffixes(binary)) - 1 THEN i
    ELSE IF Less(value, Pow(base_of(binary), i + 1)) THEN i
    ELSE unit_index(value, binary, i + 1)

\* frac * 10: the tenths digit and what is left over, as digits of `base`
RECURSIVE Times10(_, _, _)
Times10(frac, base, carry) ==
    IF frac = <<>> THEN [digits |-> <<>>, carry |-> carry]
    ELSE LET p == Head(frac) * 10 + carry
             up == Times10(Tail(frac), base, p \div base)
         IN [digits |-> <<p % base>> \o up.digits, carry |-> up.carry]

\* the left-over against one half: "above", "below" or "tie"
half_way(rest, base) ==
    LET top == rest[Len(rest)] IN
    IF 2 * top > base THEN "above"
    ELSE IF 2 * top < base THEN "below"
    ELSE IF \E j \in 1..(Len(rest) - 1) : rest[j] # 0 THEN "above"
    ELSE "tie"

\* '%.1f' of whole + frac: the tenths the exact value rounds to.  A binary
\* quotient is exact, and a tie goes to the even digit; a decimal quotient
\* that is a tie on paper is stored a little above or below it, so either
\* neighbour may be printed.
tenths_of(frac, base) ==
    LET t == Times10(frac, base, 0)
        h == half_way(t.digits, base)
    IN IF h = "above" THEN {t.carry + 1}
       ELSE IF h = "below" THEN {t.carry}
       ELSE IF base = 1024 THEN {IF t.carry % 2 = 1 THEN t.carry + 1 ELSE t.carry}
       ELSE {t.carry, t.carry + 1}

render(whole, tenths, bare, suffix) ==
    IF bare THEN ToString(whole) \o " " \o suffix
    ELSE IF tenths = 10 THEN ToString(whole + 1) \o ".0 " \o suffix
    ELSE ToString(whole) \o "." \o ToString(tenths) \o " " \o suffix

\* a formatter that never uses '%d'
format_size_one_decimal(value, binary) ==
    LET base == base_of(binary)
        fvalue == float_of(value)
        i == unit_index(fvalue, binary, 0)
        scaled == DivPow(fvalue, base, i)
        s == suffixes(binary)[i + 1]
    IN {[index |-> i, suffix |-> s, bare |-> FALSE,
         text |-> render(ToInt(scaled.whole), t, FALSE, s)] :
           t \in IF IsZero(scaled.frac) THEN {0} ELSE tenths_of(scaled.frac, base)}

\* the results format_size_human_readable(value, binary) may return (one,
\* but for a decimal tie): the loop index, the suffix, whether '%d' was
\* used, and the text.  value * base / unit is value / base^index; the
\* quotient is taken exactly, which is what the float operations give for
\* every binary value and for decimal values below 2^40.
format_size_human_readable(value, binary) ==
    LET base == base_of(binary)
        fvalue == float_of(value)
        i == unit_index(fvalue, binary, 0)
        scaled == DivPow(fvalue, base, i)
        whole == ToInt(scaled.whole)
        is_integer == IsZero(scaled.frac)
        s == suffixes(binary)[i + 1]
    IN IF is_integer
       THEN {[index |-> i, suffix |-> s, bare |-> TRUE,
              text |-> render(whole, 0, TRUE, s)]}
       ELSE {[index |-> i, suffix |-> s, bare |-> FALSE,
              text |-> render(whole, t, FALSE, s)] :
                t \in tenths_of(scaled.frac, base)}

\* the other components, at rest while one of them is exercised
PoolIdle ==
    /\ active = FALSE
    /\ config = NoInfo
    /\ volumes = EmptyVolumes
    /\ uuid = "u1"
    /\ parentExists = FALSE
    /\ dirExists = FALSE
    /\ files = {}
    /\ created = {}
    /\ last = Idle

\* the longest byte count given, in digits: 2^(10 * MaxFmtDigits) is beyond
\* the last unit, 1024^9
MaxFmtDigits == 10

FmtDigits == {0, 1, 2, 512, 999, 1000, 1023}

\* byte counts: one digit; two digits; or a top digit, a low digit and a
\* run of equal digits between them
FmtValues ==
    {<<d>> : d \in FmtDigits}
    \cup {<<low, top>> : low \in FmtDigits, top \in FmtDigits \ {0}}
    \cup {<<low>> \o [k \in 1..(n - 2) |-> fill] \o <<top>> :
            low \in FmtDigits, fill \in {0, 1023}, top \in FmtDigits \ {0},
            n \in 3..MaxFmtDigits}

\* value * 1000 is exact in a float as long as it fits the mantissa; the
\* decimal calls are taken from the counts for which it does
DecimalExact(value) == BitLen(value) + DigitBits <= MantissaBits

FmtCalls ==
    {[value |-> v, binary |-> TRUE] : v \in FmtValues}
    \cup {[value |-> v, binary |-> FALSE] : v \in {w \in FmtValues : DecimalExact(w)}}

InitFmt ==
    /\ PoolIdle
    /\ bgq = Idle
    /\ mq = Idle
    /\ \E c \in FmtCalls : fmt = [op |-> "call", value |-> c.value, binary |-> c.binary]

Format ==
    /\ fmt.op = "call"
    /\ \E r \in format_size_human_readable(fmt.value, fmt.binary) :
         fmt' = [op |-> "return", value |-> fmt.value, binary |-> fmt.binary,
                 out |-> r]
    /\ UNCHANGED <<poolvars, bgq, mq>>

NextFmt == Format

SpecFmt == InitFmt /\ [][NextFmt]_vars

----------------------------------------------------------------------------
(* qemu_devices.utils.MinQueue over heapq.  A Python list is a sequence;   *)
(* list position pos is index pos + 1.                                     *)

MaxHeapLen == 4

MaxItem == 3

Items == 1..MaxItem

ItemLists == UNION {[1..n -> Items] : n \in 0..MaxHeapLen}

At(heap, pos) == heap[pos + 1]

Put(heap, pos, item) == [heap EXCEPT ![pos + 1] = item]

\* heapq._siftdown(heap, startpos, pos), the loop with newitem held aside
RECURSIVE siftdown_loop(_, _, _, _)
siftdown_loop(heap, startpos, pos, newitem) ==
    IF pos > startpos /\ newitem < At(heap, (pos - 1) \div 2)
    THEN siftdown_loop(Put(heap, pos, At(heap, (pos - 1) \div 2)), startpos,
                       (pos - 1) \div 2, newitem)
    ELSE Put(heap, pos, newitem)

heapq_siftdown(heap, startpos, pos) ==
    siftdown_loop(heap, startpos, pos, At(heap, pos))

\* heapq._siftup(heap, pos): the smaller child is moved up until a leaf is
\* reached, then newitem is put there and sifted down to its place
RECURSIVE siftup_loop(_, _, _)
siftup_loop(heap, pos, childpos) ==
    IF childpos < Len(heap)
    THEN LET rightpos == childpos + 1
             c == IF rightpos < Len(heap)
                     /\ ~(At(heap, childpos) < At(heap, rightpos))
                  THEN rightpos ELSE childpos
         IN siftup_loop(Put(heap, pos, At(heap, c)), c, 2 * c + 1)
    ELSE [heap |-> heap, pos |-> pos]

heapq_siftup(heap, pos) ==
    LET r == siftup_loop(heap, pos, 2 * pos + 1) IN
    heapq_siftdown(Put(r.heap, r.pos, At(heap, pos)), pos, r.pos)

\* heapq.heapify(x): for i in reversed(range(n // 2)): _siftup(x, i)
RECURSIVE heapify_from(_, _)
heapify_from(x, i) ==
    IF i < 0 THEN x ELSE heapify_from(heapq_siftup(x, i), i - 1)

heapq_heapify(x) == heapify_from(x, (Len(x) \div 2) - 1)

\* heapq.heappush(heap, item)
heapq_heappush(heap, item) ==
    heapq_siftdown(Append(heap, item), 0, Len(heap))

\* a heappop that puts the last item on top and leaves it there
heappop_no_sift(heap) ==
    LET lastelt == heap[Len(heap)]
        rest == SubSeq(heap, 1, Len(heap) - 1)
    IN IF rest # <<>>
       THEN [item |-> rest[1], heap |-> Put(rest, 0, lastelt)]
       ELSE [item |-> lastelt, heap |-> rest]

\* heapq.heappop(heap), for a heap that is not empty
heapq_heappop(heap) ==
    LET lastelt == heap[Len(heap)]
        rest == SubSeq(heap, 1, Len(heap) - 1)
    IN IF rest # <<>>
       THEN [item |-> rest[1], heap |-> heapq_siftup(Put(rest, 0, lastelt), 0)]
       ELSE [item |-> lastelt, heap |-> rest]

IndexError == "IndexError"

\* op: the method; arg: its argument (0 when it has none); ret: the item
\* returned (0 when none); before: _queue when the call started
HeapCall(op, arg, status, ret, before, after) ==
    [op |-> op, arg |-> arg, status |-> status, ret |-> ret,
     before |-> before, queue |-> after]

\* MinQueue(item_list)
InitHeap ==
    /\ PoolIdle
    /\ fmt = Idle
    /\ bgq = Idle
    /\ \E item_list \in ItemLists :
         mq = HeapCall("__init__", 0, "ok", 0, item_list, heapq_heapify(item_list))

MinQueue_push(item) ==
    /\ Len(mq.queue) < MaxHeapLen
    /\ mq' = HeapCall("push", item, "ok", 0, mq.queue,
                      heapq_heappush(mq.queue, item))
    /\ UNCHANGED <<poolvars, fmt, bgq>>

MinQueue_pop ==
    /\ mq' = IF mq.queue = <<>>
             THEN HeapCall("pop", 0, IndexError, 0, mq.queue, mq.queue)
             ELSE LET r == heapq_heappop(mq.queue) IN
                  HeapCall("pop", 0, "ok", r.item, mq.queue, r.heap)
    /\ UNCHANGED <<poolvars, fmt, bgq>>

MinQueue_get_min ==
    /\ mq' = IF mq.queue = <<>>
             THEN HeapCall("get_min", 0, IndexError, 0, mq.queue, mq.queue)
             ELSE HeapCall("get_min", 0, "ok", At(mq.queue, 0), mq.queue, mq.queue)
    /\ UNCHANGED <<poolvars, fmt, bgq>>

NextHeap ==
    \/ \E item \in Items : MinQueue_push(item)
    \/ MinQueue_pop
    \/ MinQueue_get_min

SpecHeap == InitHeap /\ [][NextHeap]_vars

----------------------------------------------------------------------------
(* bg_error_queue: background_errors = queue.Queue() shared by threads,    *)
(* and clear_bg_errors.  Every statement executed under the mutex is a     *)
(* step of its own, so that an interleaving inside the block would show.   *)

MaxPuts == 2

Threads == {"producer", "consumer", "clearer", "joiner"}

NoThread == "none"

\* background_errors = queue.Queue(): empty deque, unfinished_tasks = 0,
\* mutex free, no thread inside any method.  puts counts the items put so
\* far; putSinceClear and wokenBy record history for the properties.
EmptyQueue ==
    [queue |-> <<>>, unfinished_tasks |-> 0, mutex |-> NoThread,
     pc |-> [t \in Threads |-> "idle"],
     puts |-> 0, putSinceClear |-> FALSE, wokenBy |-> "nobody"]

InitQueue ==
    /\ PoolIdle
    /\ fmt = Idle
    /\ mq = Idle
    /\ bgq = EmptyQueue

At_pc(t, where) == bgq.pc[t] = where

\* Lock.acquire(): blocks until the mutex is free
mutex_free(q) == q.mutex = NoThread

\* a clear that does not wait for the mutex
clear_ignores_lock(q) == TRUE

\* `with background_errors.mutex:` in clear_bg_errors
clear_can_lock(q) == mutex_free(q)

\* Condition.notify_all() on all_tasks_done: every waiter of join() is
\* released and must take the mutex again before it goes on
notify_all_tasks_done(q, who) ==
    IF q.pc["joiner"] = "join_wait"
    THEN [q EXCEPT !.pc["joiner"] = "join_woken", !.wokenBy = who]
    ELSE q

\* Condition.notify() on not_empty: one waiter of get() is released
notify_not_empty(q) ==
    IF q.pc["consumer"] = "get_wait"
    THEN [q EXCEPT !.pc["consumer"] = "get_woken"]
    ELSE q

\* Condition.notify / notify_all on not_full: maxsize is 0, put never
\* waits, so there is no waiter to release
notify_not_full(q) == q

QueueStep(q) ==
    /\ bgq' = q
    /\ UNCHANGED <<poolvars, fmt, mq>>

(* Queue.put(item) *)
put_begin ==
    /\ At_pc("producer", "idle")
    /\ bgq.puts < MaxPuts
    /\ mutex_free(bgq)
    /\ QueueStep([bgq EXCEPT !.mutex = "producer", !.pc["producer"] = "put_item"])

put_item ==
    /\ At_pc("producer", "put_item")
    /\ QueueStep([bgq EXCEPT !.queue = Append(@, bgq.puts + 1),
                             !.puts = @ + 1,
                             !.putSinceClear = TRUE,
                             !.pc["producer"] = "put_count"])

put_count ==
    /\ At_pc("producer", "put_count")
    /\ QueueStep([bgq EXCEPT !.unfinished_tasks = @ + 1,
                             !.pc["producer"] = "put_notify"])

put_notify ==
    /\ At_pc("producer", "put_notify")
    /\ QueueStep([notify_not_empty(bgq) EXCEPT !.pc["producer"] = "put_exit"])

put_exit ==
    /\ At_pc("producer", "put_exit")
    /\ QueueStep([bgq EXCEPT !.mutex = NoThread, !.pc["producer"] = "idle"])

(* Queue.get(block) *)
get_begin ==
    /\ At_pc("consumer", "idle")
    /\ mutex_free(bgq)
    /\ QueueStep([bgq EXCEPT !.mutex = "consumer", !.pc["consumer"] = "get_check"])

\* while not self._qsize(): self.not_empty.wait()  (wait gives up the mutex)
get_wait ==
    /\ At_pc("consumer", "get_check")
    /\ bgq.queue = <<>>
    /\ QueueStep([bgq EXCEPT !.mutex = NoThread, !.pc["consumer"] = "get_wait"])

\* block=False on an empty queue: raise Empty, the with block frees the mutex
get_empty ==
    /\ At_pc("consumer", "get_check")
    /\ bgq.queue = <<>>
    /\ QueueStep([bgq EXCEPT !.mutex = NoThread, !.pc["consumer"] = "idle"])

get_reacquire ==
    /\ At_pc("consumer", "get_woken")
    /\ mutex_free(bgq)
    /\ QueueStep([bgq EXCEPT !.mutex = "consumer", !.pc["consumer"] = "get_check"])

get_item ==
    /\ At_pc("consumer", "get_check")
    /\ bgq.queue # <<>>
    /\ QueueStep([bgq EXCEPT !.queue = Tail(@), !.pc["consumer"] = "get_notify"])

get_notify ==
    /\ At_pc("consumer", "get_notify")
    /\ QueueStep([notify_not_full(bgq) EXCEPT !.pc["consumer"] = "get_exit"])

get_exit ==
    /\ At_pc("consumer", "get_exit")
    /\ QueueStep([bgq EXCEPT !.mutex = NoThread, !.pc["consumer"] = "got"])

(* Queue.task_done(), which a consumer may or may not call for its item *)
no_task_done ==
    /\ At_pc("consumer", "got")
    /\ QueueStep([bgq EXCEPT !.pc["consumer"] = "idle"])

task_done_begin ==
    /\ At_pc("consumer", "got")
    /\ mutex_free(bgq)
    /\ QueueStep([bgq EXCEPT !.mutex = "consumer", !.pc["consumer"] = "task_done"])

\* unfinished < 0 raises ValueError and leaves the count as it was
task_done ==
    /\ At_pc("consumer", "task_done")
    /\ LET unfinished == bgq.unfinished_tasks - 1 IN
       IF unfinished < 0
       THEN QueueStep([bgq EXCEPT !.pc["consumer"] = "task_done_exit"])
       ELSE QueueStep([(IF unfinished = 0
                        THEN notify_all_tasks_done(bgq, "task_done")
                        ELSE bgq)
                       EXCEPT !.unfinished_tasks = unfinished,
                              !.pc["consumer"] = "task_done_exit"])

task_done_exit ==
    /\ At_pc("consumer", "task_done_exit")
    /\ QueueStep([bgq EXCEPT !.mutex = NoThread, !.pc["consumer"] = "idle"])

(* Queue.join() *)
join_begin ==
    /\ bgq.pc["joiner"] \in {"idle", "joined"}
    /\ mutex_free(bgq)
    /\ QueueStep([bgq EXCEPT !.mutex = "joiner", !.pc["joiner"] = "join_check",
                             !.wokenBy = "nobody"])

\* while self.unfinished_tasks: self.all_tasks_done.wait()
join_wait ==
    /\ At_pc("joiner", "join_check")
    /\ bgq.unfinished_tasks # 0
    /\ QueueStep([bgq EXCEPT !.mutex = NoThread, !.pc["joiner"] = "join_wait"])

join_reacquire ==
    /\ At_pc("joiner", "join_woken")
    /\ mutex_free(bgq)
    /\ QueueStep([bgq EXCEPT !.mutex = "joiner", !.pc["joiner"] = "join_check"])

join_return ==
    /\ At_pc("joiner", "join_check")
    /\ bgq.unfinished_tasks = 0
    /\ QueueStep([bgq EXCEPT !.mutex = NoThread, !.pc["joiner"] = "joined"])

(* clear_bg_errors() *)
clear_begin ==
    /\ At_pc("clearer", "idle")
    /\ clear_can_lock(bgq)
    /\ QueueStep([bgq EXCEPT !.mutex = "clearer", !.pc["clearer"] = "clear_queue",
                             !.putSinceClear = FALSE])

clear_queue ==
    /\ At_pc("clearer", "clear_queue")
    /\ QueueStep([bgq EXCEPT !.queue = <<>>, !.pc["clearer"] = "clear_notify_done"])

clear_notify_done ==
    /\ At_pc("clearer", "clear_notify_done")
    /\ QueueStep([notify_all_tasks_done(bgq, "clear")
                  EXCEPT !.pc["clearer"] = "clear_count"])

clear_count ==
    /\ At_pc("clearer", "clear_count")
    /\ QueueStep([bgq EXCEPT !.unfinished_tasks = 0,
                             !.pc["clearer"] = "clear_notify_full"])

clear_notify_full ==
    /\ At_pc("clearer", "clear_notify_full")
    /\ QueueStep([notify_not_full(bgq) EXCEPT !.pc["clearer"] = "clear_exit"])

clear_exit ==
    /\ At_pc("clearer", "clear_exit")
    /\ QueueStep([bgq EXCEPT !.mutex = NoThread, !.pc["clearer"] = "idle"])

ProducerInside == put_item \/ put_count \/ put_notify \/ put_exit

ConsumerInside ==
    \/ get_wait \/ get_empty \/ get_item \/ get_notify \/ get_exit
    \/ task_done \/ task_done_exit

JoinerInside == join_wait \/ join_return

ClearerInside ==
    \/ clear_queue \/ clear_notify_done \/ clear_count
    \/ clear_notify_full \/ clear_exit

NextQueue ==
    \/ put_begin \/ put_item \/ put_count \/ put_notify \/ put_exit
    \/ get_begin \/ get_wait \/ get_empty \/ get_reacquire \/ get_item
    \/ get_notify \/ get_exit
    \/ no_task_done \/ task_done_begin \/ task_done \/ task_done_exit
    \/ join_begin \/ join_wait \/ join_reacquire \/ join_return
    \/ clear_begin \/ clear_queue \/ clear_notify_done \/ clear_count
    \/ clear_notify_full \/ clear_exit

SpecQueue == InitQueue /\ [][NextQueue]_vars

\* A thread that holds the mutex runs on to the end of its block, and a
\* thread blocked in acquire() gets a mutex that keeps being released.
SpecQueueFair ==
    /\ SpecQueue
    /\ WF_vars(ProducerInside)
    /\ WF_vars(ConsumerInside)
    /\ WF_vars(JoinerInside)
    /\ WF_vars(ClearerInside)
    /\ SF_vars(join_reacquire)

----------------------------------------------------------------------------
(* Properties *)

VolumeOps ==
    {"pool_info", "get_vol_info", "pool_list_vols", "create_volume",
     "delete_volume", "clone_volume"}

\* the directory an active pool works in: config['path'] after pool_start
PoolDir(cfg) == cfg.path

\* C1: every key of `volumes` is a name that create_volume registered on an
\* active pool and that has not been deleted since; in particular a
\* get_vol_info of an unknown name adds no entry.
C1_VolumesOnlyCreated == DOMAIN volumes \subseteq created

\* C2: an introspection or volume operation called on an inactive pool
\* raises DirectoryPoolInactiveError carrying the pool's name and the
\* operation's name.
C2_InactiveOpsRaise ==
    (last.op \in VolumeOps /\ ~last.pre.active)
        => (last.status = InactiveError /\ last.err = <<PoolName, last.op>>)

\* C3: whenever create_volume returns a locator, the pool is active and
\* `volumes` holds an entry for the name whose locator is the returned one.
C3_CreateReturnsPersisted ==
    (last.op = "create_volume" /\ last.status = "ok")
        => /\ last.pre.active
           /\ last.arg \in DOMAIN volumes
           /\ volumes[last.arg][2] = last.url

\* C4: on an active pool, a create_volume that directly follows a
\* create_volume of the same name (with any two formats) returns the same
\* locator and leaves `volumes` as the first call left it, the name's entry
\* included.
C4_CreateIdempotent ==
    [][(/\ last.op = "create_volume"
        /\ last.pre.active
        /\ last'.op = "create_volume"
        /\ last'.arg = last.arg)
          => (/\ last'.url = last.url
              /\ volumes' = volumes
              /\ last.arg \in DOMAIN volumes'
              /\ volumes'[last.arg] = volumes[last.arg])]_vars

\* C4 witness: a create_volume of a name that an earlier create_volume
\* registered under the other format has returned the registered locator.
C4_Witness ==
    /\ last.op = "create_volume"
    /\ last.pre.active
    /\ last.arg \in last.pre.created
    /\ last.arg \in DOMAIN last.pre.volumes
    /\ last.pre.volumes[last.arg][2] # ""
    /\ last.pre.volumes[last.arg][3] #
           format_as_json(last.pre.volumes[last.arg][1], last.arg2)
    /\ last.url = last.pre.volumes[last.arg][2]

\* C5: on an active pool, create_volume of a name that no create_volume
\* has registered (or whose registration was deleted) returns
\* "file:" + directory/name and stores path, that locator and the descriptor
\* naming the format and the path.
C5_CreateFresh ==
    (last.op = "create_volume" /\ last.pre.active /\ last.arg \notin last.pre.created)
        => LET path == PoolDir(last.pre.config) \o "/" \o last.arg IN
           /\ last.url = "file:" \o path
           /\ last.arg \in DOMAIN volumes
           /\ volumes[last.arg] =
                <<path, "file:" \o path,
                  "{\"driver\": \"" \o last.arg2 \o "\", \"file\": {\"driver\": "
                    \o "\"file\", \"filename\": \"" \o path \o "\"}}">>

\* C6: on an active pool, delete_volume of a name that create_volume never
\* registered (or that was deleted) raises PoolVolNotExistError carrying the
\* pool's name and the volume's name, and removes nothing.
C6_DeleteUntrackedRaises ==
    (last.op = "delete_volume" /\ last.pre.active /\ last.arg \notin last.pre.created)
        => /\ last.status = NotExistError
           /\ last.err = <<PoolName, last.arg>>
           /\ volumes = last.pre.volumes
           /\ files = last.pre.files

\* C7: on an inactive pool, delete_volume raises DirectoryPoolInactiveError
\* naming the pool and 'delete_volume' for every name, tracked or not, and
\* leaves `volumes` and the files as they were.
C7_DeleteInactive ==
    (last.op = "delete_volume" /\ ~last.pre.active)
        => /\ last.status = InactiveError
           /\ last.err = <<PoolName, "delete_volume">>
           /\ volumes = last.pre.volumes
           /\ files = last.pre.files

\* C7 witness: delete_volume of a tracked name was refused on an inactive pool
C7_Witness ==
    /\ last.op = "delete_volume"
    /\ ~last.pre.active
    /\ last.arg \in DOMAIN last.pre.volumes
    /\ last.status = InactiveError

\* os.remove was reached by the last delete_volume and raised
RemoveRaised ==
    /\ last.flag
    /\ last.arg \in DOMAIN last.pre.volumes
    /\ isfile(last.pre.files, last.pre.volumes[last.arg][1])

C8_DeleteState ==
    (/\ last.op = "delete_volume"
     /\ last.pre.active
     /\ last.arg \in DOMAIN last.pre.volumes
     /\ ~RemoveRaised)
        => LET vol_path == last.pre.volumes[last.arg][1] IN
           /\ last.status = "ok"
           /\ last.arg \notin DOMAIN volumes
           /\ ~isfile(files, vol_path)
           /\ DOMAIN volumes = DOMAIN last.pre.volumes \ {last.arg}
           /\ \A n \in DOMAIN volumes : volumes[n] = last.pre.volumes[n]
           /\ files \ {vol_path} = last.pre.files \ {vol_path}

C8_ListAfterDelete ==
    (/\ last.op = "delete_volume"
     /\ last.status = "ok"
     /\ last'.op = "pool_list_vols")
        => /\ last'.status = "ok" => last.arg \notin DOMAIN last'.info
           /\ (DOMAIN volumes = {}) => (last'.status = "ok" /\ DOMAIN last'.info = {})

\* C8: on an active pool, delete_volume of a tracked name succeeds whether
\* or not the backing file exists (os.remove itself not failing): the name
\* leaves `volumes`, its backing file is absent, every other entry and file
\* is unchanged, and a pool_list_vols that follows does not list the name
\* and is empty when the name was the only volume.
C8_DeleteTracked == []C8_DeleteState /\ [][C8_ListAfterDelete]_vars

\* C8 witness: a tracked volume whose backing file existed was deleted and
\* another tracked volume with its file was left in place.
C8_Witness ==
    /\ last.op = "delete_volume"
    /\ last.pre.active
    /\ last.status = "ok"
    /\ last.arg \in DOMAIN last.pre.volumes
    /\ isfile(last.pre.files, last.pre.volumes[last.arg][1])
    /\ \E n \in DOMAIN volumes : isfile(files, volumes[n][1])

\* C9: a pool_start whose build step fails (directory absent, parent
\* missing) raises to the caller and leaves `active` as it was, so an
\* inactive pool stays inactive; `active` turns true only in a pool_start
\* whose build step succeeded, with the directory in place.
C9_StartAtomic ==
    /\ (last.op = "pool_start")
          => IF ~last.pre.dirExists /\ ~last.pre.parentExists
             THEN /\ last.status = OSError
                  /\ active = last.pre.active
                  /\ config = last.pre.config
             ELSE /\ last.status = "ok"
                  /\ active
                  /\ dirExists
    /\ (active /\ ~last.pre.active)
          => (last.op = "pool_start" /\ last.status = "ok" /\ dirExists)

\* C9 witness: pool_start failed on an inactive pool, which stayed inactive
C9_Witness ==
    /\ last.op = "pool_start"
    /\ last.status = OSError
    /\ ~last.pre.active
    /\ ~active

\* C10: pool_destroy on an active pool sets `active` to false and touches
\* neither the directory, the files nor `volumes`.
C10_DestroyDeactivates ==
    (last.op = "pool_destroy" /\ last.pre.active)
        => /\ last.status = "ok"
           /\ ~active
           /\ dirExists = last.pre.dirExists
           /\ files = last.pre.files
           /\ volumes = last.pre.volumes

\* C11: on an active pool with the source tracked, clone_volume(source,
\* dest) registers dest as create_volume would: dest is in `volumes` with
\* path directory/dest and locator "file:" + that path, and the source's
\* entry is unchanged.
C11_CloneRegisters ==
    (/\ last.op = "clone_volume"
     /\ last.pre.active
     /\ last.arg \in DOMAIN last.pre.volumes)
        => LET path == PoolDir(last.pre.config) \o "/" \o last.arg2 IN
           /\ last.status = "ok"
           /\ last.arg2 \in DOMAIN volumes
           /\ volumes[last.arg2][1] = path
           /\ volumes[last.arg2][2] = "file:" \o path
           /\ (last.arg # last.arg2 => volumes[last.arg] = last.pre.volumes[last.arg])

\* the name was tracked and its backing file existed when the call started
TrackedWithFile(call) ==
    /\ call.arg \in DOMAIN call.pre.volumes
    /\ call.pre.volumes[call.arg][1] \in call.pre.files

\* C12: get_vol_info(name) raises PoolVolNotExistError(pool, name) whenever
\* the name is untracked or its backing file is missing, and returns a
\* result holding the volume's path only when the name is tracked (it was
\* registered by create_volume) and its backing file exists.
C12_GetVolInfo ==
    (last.op = "get_vol_info")
        => IF TrackedWithFile(last)
           THEN /\ last.status = "ok"
                /\ last.info = [path |-> last.pre.volumes[last.arg][1]]
                /\ last.arg \in last.pre.created
           ELSE /\ last.status = NotExistError
                /\ last.err = <<PoolName, last.arg>>

\* C12 witness: get_vol_info returned the path of a tracked volume whose
\* file exists
C12_Witness ==
    /\ last.op = "get_vol_info"
    /\ last.status = "ok"
    /\ TrackedWithFile(last)

C13_Membership ==
    (last.op = "is_volumes_existed")
        => /\ last.status = "ok"
           /\ last.flag = (last.arg \in DOMAIN last.pre.volumes)
           /\ volumes = last.pre.volumes
           /\ active = last.pre.active
           /\ config = last.pre.config

C13_RepeatedNegative ==
    (/\ last.op = "is_volumes_existed"
     /\ ~last.flag
     /\ last'.op = "is_volumes_existed"
     /\ last'.arg = last.arg)
        => ~last'.flag

\* C13: is_volumes_existed returns true exactly when the name is a key of
\* `volumes` and leaves `volumes`, `active` and `config` unchanged whatever
\* the answer, so a repeated check of an unknown name returns false again.
C13_ExistenceCheckPure == []C13_Membership /\ [][C13_RepeatedNegative]_vars

\* C13 witness: a check of an unknown name answered false on a pool that
\* tracks another volume
C13_Witness ==
    /\ last.op = "is_volumes_existed"
    /\ ~last.flag
    /\ last.arg \notin DOMAIN volumes
    /\ DOMAIN volumes # {}

\* the parameters a config gets wrong: keys other than path, and path when
\* it is absent
Offending(input) == (DOMAIN input \ {"path"}) \cup ({"path"} \ DOMAIN input)

\* the message ends with the quoted parameter name
NamesParameter(msg, k) ==
    /\ Len(msg) >= Len(k) + 2
    /\ SubSeq(msg, Len(msg) - Len(k) - 1, Len(msg)) = "'" \o k \o "'"

\* C14: construction accepts a config exactly when its key set is {path};
\* any other config raises DirectoryPoolConfigError with a message naming an
\* offending parameter and yields no pool; every pool that exists has a
\* config with exactly the key path, whatever is called on it.
C14_ConfigValidated ==
    /\ (last.op = "__init__")
          => IF DOMAIN last.info = {"path"}
             THEN /\ last.status = "ok"
                  /\ PoolExists
                  /\ config = [path |-> last.info["path"]]
             ELSE /\ last.status = ConfigError
                  /\ ~PoolExists
                  /\ Len(last.err) = 1
                  /\ \E k \in Offending(last.info) : NamesParameter(last.err[1], k)
    /\ PoolExists => DOMAIN config = {"path"}

\* C14 witness: a config carrying path and one more key was refused
C14_Witness ==
    /\ last.op = "__init__"
    /\ DOMAIN last.info = {"path", "size"}
    /\ last.status = ConfigError

C17_StartState ==
    (last.op = "pool_start" /\ ~last.pre.dirExists /\ last.pre.parentExists)
        => /\ last.status = "ok"
           /\ dirExists
           /\ parentExists
           /\ config = [path |-> "/tmp/xyz"]
           /\ active
           /\ files = last.pre.files

C17_InfoAfterStart ==
    (last.op = "pool_start" /\ last.status = "ok" /\ last'.op = "pool_info")
        => /\ last'.status = "ok"
           /\ last'.info = [name |-> PoolName, uuid |-> last.pre.uuid,
                            config |-> config, state |-> "active"]

\* C17: for a valid config whose path's parent exists, pool_start on an
\* absent path creates that one directory, stores the absolute path in the
\* config and makes the pool active; a pool_info that follows succeeds and
\* reports state 'active' with the pool's name, id and config; the id never
\* changes after construction.
C17_StartThenInfo ==
    []C17_StartState /\ [][C17_InfoAfterStart]_vars /\ [][uuid' = uuid]_vars

\* C17 witness: pool_start made the directory of a pool configured with a
\* relative path whose parent exists
C17_Witness ==
    /\ last.op = "pool_start"
    /\ last.pre.config.path = "xyz"
    /\ ~last.pre.dirExists
    /\ last.pre.parentExists
    /\ active
    /\ dirExists

C18_FailedRemove ==
    (last.op = "delete_volume" /\ last.pre.active /\ RemoveRaised)
        => /\ last.status = OSError
           /\ last.status \notin {InactiveError, NotExistError, ConfigError}
           /\ volumes = last.pre.volumes
           /\ last.arg \in DOMAIN volumes
           /\ files = last.pre.files
           /\ created = last.pre.created

C18_Retry ==
    (/\ last.op = "delete_volume"
     /\ last.status = OSError
     /\ last'.op = "delete_volume"
     /\ last'.arg = last.arg
     /\ ~last'.flag)
        => (last'.status = "ok" /\ last.arg \notin DOMAIN volumes')

\* C18: when os.remove raises during delete_volume on an active pool, the
\* OS error reaches the caller as it is (no PoolError) and nothing changed:
\* the name is still tracked with its path, locator and descriptor, and a
\* later delete_volume of it goes through.
C18_RemoveErrorPropagates == []C18_FailedRemove /\ [][C18_Retry]_vars

\* C18 witness: os.remove raised for a tracked volume whose file exists
C18_Witness ==
    /\ last.op = "delete_volume"
    /\ last.status = OSError
    /\ last.arg \in DOMAIN volumes
    /\ isfile(files, volumes[last.arg][1])

Returned(n, binary) ==
    fmt.op = "return" /\ fmt.value = FromInt(n) /\ fmt.binary = binary

\* the byte count is a whole multiple of base^i
Divisible(value, binary, i) ==
    IF binary THEN \A k \in 1..i : value[k] = 0
    ELSE \E m \in 0..999 : Norm(MulSmall(Pow(1000, i), m, 0)) = value

\* float() has a byte count of this size exactly
FloatExact(value) == BitLen(value) <= 53

\* C15 as stated: 999 decimal is "999 B", 1024 binary "1.0 KiB", 2048 binary
\* "2.0 KiB", 1000 decimal "1.0 kB", and a bare integer is printed only for
\* a value exactly divisible by the chosen unit.
C15_AsStated ==
    /\ Returned(999, FALSE) => fmt.out.text = "999 B"
    /\ Returned(1024, TRUE) => fmt.out.text = "1.0 KiB"
    /\ Returned(2048, TRUE) => fmt.out.text = "2.0 KiB"
    /\ Returned(1000, FALSE) => fmt.out.text = "1.0 kB"
    /\ (fmt.op = "return" /\ fmt.out.bare)
          => Divisible(fmt.value, fmt.binary, fmt.out.index)

\* C15 (amended): 999 decimal is "999 B", 1024 binary "1 KiB", 2048 binary
\* "2 KiB", 1000 decimal "1 kB": a value that is a whole number of units is
\* printed as a bare integer, and, for byte counts a float holds exactly
\* (below 2^53), only such a value is.
C15_SizeFormatting ==
    /\ Returned(999, FALSE) => fmt.out.text = "999 B"
    /\ Returned(1024, TRUE) => fmt.out.text = "1 KiB"
    /\ Returned(2048, TRUE) => fmt.out.text = "2 KiB"
    /\ Returned(1000, FALSE) => fmt.out.text = "1 kB"
    /\ Returned(1536, TRUE) => fmt.out.text = "1.5 KiB"
    /\ (fmt.op = "return" /\ FloatExact(fmt.value))
          => (fmt.out.bare <=> Divisible(fmt.value, fmt.binary, fmt.out.index))

\* C15 witness: 1024 bytes, binary, have been formatted
C15_Witness == Returned(1024, TRUE) /\ fmt.out.bare

\* C16: for a byte count below base^9 the suffix index is the smallest i
\* with value < base^(i+1) (so value / base^i is below the base and, from
\* the base on, at least 1); from base^9 on it is the last suffix.
C16_UnitSelection ==
    (fmt.op = "return")
        => LET base == IF fmt.binary THEN 1024 ELSE 1000
               i == fmt.out.index
           IN IF Less(fmt.value, Pow(base, 9))
              THEN /\ i \in 0..8
                   /\ Less(fmt.value, Pow(base, i + 1))
                   /\ (i > 0 => ~Less(fmt.value, Pow(base, i)))
                   /\ fmt.out.suffix = suffixes(fmt.binary)[i + 1]
              ELSE /\ i = 8
                   /\ fmt.out.suffix = (IF fmt.binary THEN "YiB" ELSE "YB")

Occurrences(seq, v) == Cardinality({k \in 1..Len(seq) : seq[k] = v})

Smallest(seq) == CHOOSE v \in {seq[k] : k \in 1..Len(seq)} :
                    \A k \in 1..Len(seq) : v <= seq[k]

\* every element is >= its parent at list position (i - 1) // 2
HeapOrdered(seq) ==
    \A k \in 2..Len(seq) : seq[k \div 2] <= seq[k]

C20_HeapState ==
    /\ HeapOrdered(mq.queue)
    /\ (mq.op = "__init__")
          => \A v \in Items : Occurrences(mq.queue, v) = Occurrences(mq.before, v)
    /\ (mq.op = "push")
          => \A v \in Items :
               Occurrences(mq.queue, v) =
                 Occurrences(mq.before, v) + (IF v = mq.arg THEN 1 ELSE 0)
    /\ (mq.op = "get_min" /\ mq.before # <<>>)
          => /\ mq.status = "ok"
             /\ mq.ret = Smallest(mq.before)
             /\ mq.queue = mq.before
    /\ (mq.op = "pop" /\ mq.before # <<>>)
          => /\ mq.status = "ok"
             /\ mq.ret = Smallest(mq.before)
             /\ Len(mq.queue) = Len(mq.before) - 1
             /\ \A v \in Items :
                  Occurrences(mq.queue, v) =
                    Occurrences(mq.before, v) - (IF v = mq.ret THEN 1 ELSE 0)

C20_PopsAscend ==
    (mq.op = "pop" /\ mq.status = "ok" /\ mq'.op = "pop" /\ mq'.status = "ok")
        => mq.ret <= mq'.ret

\* C20: MinQueue keeps the min-heap order (each element >= its parent) from
\* construction out of any list and through every push and pop; get_min
\* returns the smallest element held and removes nothing; pop removes and
\* returns the smallest, so successive pops come out in non-decreasing order.
C20_MinHeap == []C20_HeapState /\ [][C20_PopsAscend]_vars

\* C20 witness: a pop from a heap of at least three different items returned
\* the smallest and left the rest a heap whose last item had to move
C20_Witness ==
    /\ mq.op = "pop"
    /\ mq.status = "ok"
    /\ Len(mq.before) = MaxHeapLen
    /\ Cardinality({mq.before[k] : k \in 1..Len(mq.before)}) >= 3
    /\ mq.queue # SubSeq(mq.before, 2, Len(mq.before))
    /\ mq.ret < mq.queue[1]

ClearInside ==
    bgq.pc["clearer"] \in {"clear_queue", "clear_notify_done", "clear_count",
                           "clear_notify_full", "clear_exit"}

InsideQueueMethod(t) ==
    bgq.pc[t] \in {"put_item", "put_count", "put_notify", "put_exit",
                   "get_check", "get_notify", "get_exit",
                   "task_done", "task_done_exit", "join_check"}

\* while clear_bg_errors is inside its block it holds the mutex and no other
\* thread is inside a block of put, get, task_done or join
C19_ClearExclusive ==
    ClearInside => /\ bgq.mutex = "clearer"
                   /\ \A t \in Threads \ {"clearer"} : ~InsideQueueMethod(t)

\* while clear_bg_errors is inside its block, only its own steps change the
\* items or the unfinished-task count
C19_NoInterleaving ==
    (ClearInside /\ (bgq'.queue # bgq.queue
                     \/ bgq'.unfinished_tasks # bgq.unfinished_tasks
                     \/ bgq'.puts # bgq.puts))
        => bgq'.pc["clearer"] # bgq.pc["clearer"]

\* when clear_bg_errors releases the mutex the queue is empty, the count is 0
\* and no thread is still waiting in join()
C19_AtRelease ==
    (bgq.pc["clearer"] = "clear_exit" /\ bgq'.pc["clearer"] = "idle")
        => /\ bgq'.queue = <<>>
           /\ bgq'.unfinished_tasks = 0
           /\ bgq'.mutex = NoThread
           /\ bgq'.pc["joiner"] # "join_wait"

\* a thread blocked in join() when clear_bg_errors takes the mutex returns
\* from join(), unless an item is put after that
C19_JoinReturns ==
    (bgq.pc["joiner"] = "join_wait" /\ bgq.pc["clearer"] = "clear_queue")
        ~> (bgq.pc["joiner"] = "joined" \/ bgq.putSinceClear)

\* C19: clear_bg_errors runs entirely under the queue's mutex: no put or get
\* interleaves inside it; when it releases the mutex the queue holds no items
\* and unfinished_tasks is 0; a thread blocked in join() is woken and returns
\* if no item is put afterwards.
C19_ClearAtomic ==
    /\ []C19_ClearExclusive
    /\ [][C19_NoInterleaving]_vars
    /\ [][C19_AtRelease]_vars
    /\ C19_JoinReturns

\* C19 witness: a join() that was blocked on an item nobody had finished was
\* woken by clear_bg_errors and has returned, no item having been put since
C19_Witness ==
    /\ bgq # Idle
    /\ bgq.pc["joiner"] = "joined"
    /\ bgq.wokenBy = "clear"
    /\ ~bgq.putSinceClear
    /\ bgq.puts > 0
    /\ bgq.queue = <<>>
    /\ bgq.unfinished_tasks = 0

====
